---- MODULE Spec2Model ----
(***************************************************************************)
(* Host-side SX126x command layer (sx126x.py) over the CH341 USB-to-SPI    *)
(* bridge (ch341par.py).  One Sx126x instance owns a 100-byte scratch      *)
(* buffer; every public method builds a command frame, loads it into the   *)
(* buffer, opens the device, runs one full-duplex SPI exchange in place,   *)
(* closes the device and returns a slice of the buffer.                    *)
(*                                                                         *)
(* Bytes are integers 0..255, byte strings are sequences of bytes          *)
(* (1-based here, 0-based in the source: source index k is k+1 here).      *)
(***************************************************************************)
EXTENDS Integers, Sequences, FiniteSets, TLC

VARIABLES
    buffer,      \* self.buffer: the scratch buffer, always BufferSize bytes
    calls,       \* number of public methods called so far on the instance
    op,          \* name of the last public method called ("__init__" at start)
    args,        \* its integer arguments, in order
    data,        \* its write_bytes argument (<<>> when it has none)
    raised,      \* the exception the last call raised, "none" when it returned
    sent,        \* the frames handed to stream_spi_4 during the last call
    cmd_result,  \* what _send_command returned to the last call (<<>> if it did not return)
    result,      \* what the last call returned to its caller
    opens,       \* CH341OpenDevice calls made by the last call
    closes,      \* CH341CloseDevice calls made by the last call
    constructed, \* "no" before Sx126x(...) runs, then "ok" or "failed"
    streams,     \* CH341SetStream calls made for the instance so far
    mode,        \* history: the chip mode the commands accepted so far ask for
    before,      \* history: what the call before the last one raised
    chip,        \* the packet type register of a simulated chip
    passed,      \* history: <<v>> for the last value v passed to SetPacketType
    serialized,  \* whether the host serializes its callers (one lock per device)
    callers      \* the callers of a multi-threaded host, each inside _send_command

\* the instance and the last call on it
instance == <<buffer, calls, op, args, data, raised, sent, cmd_result, result, opens, closes>>

\* what only the dedicated specifications below change
construction == <<constructed, streams>>
session      == <<mode, before>>
simulation   == <<chip, passed>>
threads      == <<serialized, callers>>

vars == <<instance, construction, session, simulation, threads>>

----------------------------------------------------------------------------
(* Bounds and program constants *)

MaxCalls == 2

BufferSize == 100

Byte == 0..255

----------------------------------------------------------------------------
(* Python primitives used by the frame builders *)

\* x & m for a Python int x (any sign, two's complement of unbounded width)
\* and a mask m >= 0, bit by bit; \div is floor division, as >> is in Python.
RECURSIVE BitAnd(_, _)
BitAnd(x, m) ==
    IF m = 0 THEN 0
    ELSE (x % 2) * (m % 2) + 2 * BitAnd(x \div 2, m \div 2)

\* variant: a field that keeps the low bytes of a value that does not fit
to_bytes_wrapping(v, length) ==
    [ok    |-> TRUE,
     bytes |-> [i \in 1..length |-> (v \div (256 ^ (length - i))) % 256]]

\* variant: least significant byte first
to_bytes_little(v, length) ==
    IF v < 0 \/ v >= 256 ^ length
    THEN [ok |-> FALSE, bytes |-> <<>>]
    ELSE [ok    |-> TRUE,
          bytes |-> [i \in 1..length |-> (v \div (256 ^ (i - 1))) % 256]]

\* v.to_bytes(length, 'big'): OverflowError when v is negative or needs more
\* than length bytes, else exactly length bytes, most significant first.
to_bytes(v, length) ==
    IF v < 0 \/ v >= 256 ^ length
    THEN [ok |-> FALSE, bytes |-> <<>>]
    ELSE [ok    |-> TRUE,
          bytes |-> [i \in 1..length |-> (v \div (256 ^ (length - i))) % 256]]

\* bytes(n): n zero bytes (the NOP placeholders)
Zeros == [i \in 1..300 |-> 0]

Nops(n) == SubSeq(Zeros, 1, n)

\* s[k:] for a byte string s and a source index k >= 0
SliceFrom(s, k) == SubSeq(s, k + 1, Len(s))

\* what a frame builder hands on: the frame, or the exception it raised
Built(b)   == [raised |-> "none", cmd_bytes |-> b]
Failed(e)  == [raised |-> e, cmd_bytes |-> <<>>]

\* <<b1>> \o to_bytes(...) \o ... : append a fixed-width field to a frame
\* under construction; a field that does not fit raises OverflowError.
AppendField(built, v, length) ==
    IF built.raised # "none" THEN built
    ELSE IF to_bytes(v, length).ok
         THEN Built(built.cmd_bytes \o to_bytes(v, length).bytes)
         ELSE Failed("OverflowError")

----------------------------------------------------------------------------
(* The transport (Ch341Par) as seen by one call *)

\* The chip's answer to an exchange: byte k (source index) of the answer
\* numbered seed is (seed + k) mod 256.
ChipAnswers == {35}

Ramp == [i \in 1..512 |-> (i - 1) % 256]

Rx(seed, n) == SubSeq(Ramp, seed + 1, seed + n)

\* What the bridge does during one call: whether CH341OpenDevice returns a
\* handle, whether CH341StreamSPI4 reports success, and what it leaves in the
\* buffer (touched = FALSE: a failed transfer that wrote nothing back).
Transport ==
    {[open |-> FALSE, ok |-> FALSE, touched |-> FALSE, seed |-> 35]}
    \cup {[open |-> TRUE, ok |-> TRUE, touched |-> TRUE, seed |-> s] : s \in ChipAnswers}
    \cup {[open |-> TRUE, ok |-> FALSE, touched |-> FALSE, seed |-> 35]}

\* the same, and the failed transfer that wrote the chip's bytes back before
\* it was reported
SessionTransport ==
    Transport \cup {[open |-> TRUE, ok |-> FALSE, touched |-> TRUE, seed |-> 35]}

\* the bridge is not reached by a call that raises while building its frame
NoTransport == [open |-> FALSE, ok |-> FALSE, touched |-> FALSE, seed |-> 35]

\* variant: the frame is copied as a C string, up to its first zero byte,
\* so that the rest of the frame is whatever the buffer held
set_value_cstring(buf, cmd_bytes) ==
    LET zeros == {i \in 1..Len(cmd_bytes) : cmd_bytes[i] = 0}
        n     == IF zeros = {} THEN Len(cmd_bytes)
                 ELSE (CHOOSE i \in zeros : \A k \in zeros : i <= k) - 1
    IN  IF n < BufferSize
        THEN SubSeq(cmd_bytes, 1, n) \o <<0>> \o SubSeq(buf, n + 2, BufferSize)
        ELSE cmd_bytes

\* self.buffer.value = cmd_bytes (ctypes char array): the bytes are copied to
\* the front of the array and a NUL follows them when there is room; the rest
\* of the array keeps what it held.
set_value(buf, cmd_bytes) ==
    IF Len(cmd_bytes) < BufferSize
    THEN cmd_bytes \o <<0>> \o SubSeq(buf, Len(cmd_bytes) + 2, BufferSize)
    ELSE cmd_bytes

\* CH341StreamSPI4(id, cs, i_length, io_buffer): the first i_length bytes of
\* the buffer are clocked out and replaced in place by the bytes clocked in.
stream_spi_4(buf, i_length, t) ==
    IF t.touched
    THEN Rx(t.seed, i_length) \o SubSeq(buf, i_length + 1, BufferSize)
    ELSE buf

\* variant: the whole buffer is handed back instead of buffer[:byte_count]
_send_command_whole(buf, cmd_bytes, t) ==
    LET byte_count == Len(cmd_bytes)
        loaded     == set_value(buf, cmd_bytes)
        after      == stream_spi_4(loaded, byte_count, t)
    IN  IF byte_count > BufferSize
        THEN [raised |-> "ValueError", buffer |-> buf, sent |-> <<>>,
              cmd_result |-> <<>>, opens |-> 0, closes |-> 0]
        ELSE IF ~t.open
        THEN [raised |-> "OpenError", buffer |-> loaded, sent |-> <<>>,
              cmd_result |-> <<>>, opens |-> 1, closes |-> 0]
        ELSE IF ~t.ok
        THEN [raised |-> "TransferError", buffer |-> after,
              sent |-> <<SubSeq(loaded, 1, byte_count)>>,
              cmd_result |-> <<>>, opens |-> 1, closes |-> 1]
        ELSE [raised |-> "none", buffer |-> after,
              sent |-> <<SubSeq(loaded, 1, byte_count)>>,
              cmd_result |-> after,
              opens |-> 1, closes |-> 1]

\* variant: the device is not closed when the transfer fails (no with block)
_send_command_leaky(buf, cmd_bytes, t) ==
    LET byte_count == Len(cmd_bytes)
        loaded     == set_value(buf, cmd_bytes)
        after      == stream_spi_4(loaded, byte_count, t)
    IN  IF byte_count > BufferSize
        THEN [raised |-> "ValueError", buffer |-> buf, sent |-> <<>>,
              cmd_result |-> <<>>, opens |-> 0, closes |-> 0]
        ELSE IF ~t.open
        THEN [raised |-> "OpenError", buffer |-> loaded, sent |-> <<>>,
              cmd_result |-> <<>>, opens |-> 1, closes |-> 0]
        ELSE IF ~t.ok
        THEN [raised |-> "TransferError", buffer |-> after,
              sent |-> <<SubSeq(loaded, 1, byte_count)>>,
              cmd_result |-> <<>>, opens |-> 1, closes |-> 0]
        ELSE [raised |-> "none", buffer |-> after,
              sent |-> <<SubSeq(loaded, 1, byte_count)>>,
              cmd_result |-> SubSeq(after, 1, byte_count),
              opens |-> 1, closes |-> 1]

\* variant: a frame longer than the buffer is cut to the buffer's size
_send_command_truncating(buf, cmd_bytes, t) ==
    LET byte_count == IF Len(cmd_bytes) > BufferSize THEN BufferSize ELSE Len(cmd_bytes)
        loaded     == set_value(buf, SubSeq(cmd_bytes, 1, byte_count))
        after      == stream_spi_4(loaded, byte_count, t)
    IN  IF ~t.open
        THEN [raised |-> "OpenError", buffer |-> loaded, sent |-> <<>>,
              cmd_result |-> <<>>, opens |-> 1, closes |-> 0]
        ELSE IF ~t.ok
        THEN [raised |-> "TransferError", buffer |-> after,
              sent |-> <<SubSeq(loaded, 1, byte_count)>>,
              cmd_result |-> <<>>, opens |-> 1, closes |-> 1]
        ELSE [raised |-> "none", buffer |-> after,
              sent |-> <<SubSeq(loaded, 1, byte_count)>>,
              cmd_result |-> SubSeq(after, 1, byte_count),
              opens |-> 1, closes |-> 1]

\* variant: a failed transfer is tried a second time before it is reported
_send_command_retry(buf, cmd_bytes, t) ==
    LET byte_count == Len(cmd_bytes)
        loaded     == set_value(buf, cmd_bytes)
        after      == stream_spi_4(loaded, byte_count, t)
    IN  IF byte_count > BufferSize
        THEN [raised |-> "ValueError", buffer |-> buf, sent |-> <<>>,
              cmd_result |-> <<>>, opens |-> 0, closes |-> 0]
        ELSE IF ~t.open
        THEN [raised |-> "OpenError", buffer |-> loaded, sent |-> <<>>,
              cmd_result |-> <<>>, opens |-> 1, closes |-> 0]
        ELSE IF ~t.ok
        THEN [raised |-> "TransferError", buffer |-> after,
              sent |-> <<SubSeq(loaded, 1, byte_count), SubSeq(after, 1, byte_count)>>,
              cmd_result |-> <<>>, opens |-> 1, closes |-> 1]
        ELSE [raised |-> "none", buffer |-> after,
              sent |-> <<SubSeq(loaded, 1, byte_count)>>,
              cmd_result |-> SubSeq(after, 1, byte_count),
              opens |-> 1, closes |-> 1]

\* Sx126x._send_command
_send_command(buf, cmd_bytes, t) ==
    LET byte_count == Len(cmd_bytes)
        loaded     == set_value(buf, cmd_bytes)
        after      == stream_spi_4(loaded, byte_count, t)
    IN  IF byte_count > BufferSize
        THEN \* the assignment to buffer.value raises "byte string too long"
             [raised |-> "ValueError", buffer |-> buf, sent |-> <<>>,
              cmd_result |-> <<>>, opens |-> 0, closes |-> 0]
        ELSE IF ~t.open
        THEN \* Ch341Par.__enter__ raises: no exchange, __exit__ never runs
             [raised |-> "OpenError", buffer |-> loaded, sent |-> <<>>,
              cmd_result |-> <<>>, opens |-> 1, closes |-> 0]
        ELSE IF ~t.ok
        THEN \* stream_spi_4 raises, __exit__ closes the device
             [raised |-> "TransferError", buffer |-> after,
              sent |-> <<SubSeq(loaded, 1, byte_count)>>,
              cmd_result |-> <<>>, opens |-> 1, closes |-> 1]
        ELSE [raised |-> "none", buffer |-> after,
              sent |-> <<SubSeq(loaded, 1, byte_count)>>,
              cmd_result |-> SubSeq(after, 1, byte_count),
              opens |-> 1, closes |-> 1]

----------------------------------------------------------------------------
(* State after construction *)

None == [none |-> TRUE]

\* the callers of a multi-threaded host, none of them inside a call
Callers == {"A", "B"}

Idle == [pc |-> "idle", cmd_bytes |-> <<>>, handed |-> <<>>, answer |-> <<>>, returned |-> <<>>]

\* the fields and counters a successful Sx126x.__init__ leaves
Constructed ==
    /\ buffer = [i \in 1..BufferSize |-> 0]
    /\ calls = 0
    /\ op = "__init__"
    /\ args = <<>>
    /\ data = <<>>
    /\ raised = "none"
    /\ sent = <<>>
    /\ cmd_result = <<>>
    /\ result = None
    /\ opens = 1
    /\ closes = 1
    /\ constructed = "ok"
    /\ streams = 1

Init ==
    /\ Constructed
    /\ mode = "STDBY_RC"
    /\ before = "none"
    /\ chip = 0
    /\ passed = <<>>
    /\ serialized = TRUE
    /\ callers = [c \in Callers |-> Idle]

----------------------------------------------------------------------------
(* Arguments the calls are tried with *)

\* The result of a method that raised
Raise(e) == [exception |-> e]

\* arguments of the commands that mask a one-byte parameter
MaskArgs == {-1, 2, 511}
ByteArgs == {301}

\* 24-bit timeouts: 0, 0x123456, 0xFFFFFF, and two that do not fit
Timeouts == {0, 1193046, 16777215, 16777216, -1}

\* n payload bytes, none of them zero
PayloadBytes == [i \in 1..100 |-> 1 + ((i * 7) % 255)]

Payload(n) == SubSeq(PayloadBytes, 1, n)

\* (rxPeriod, sleepPeriod) pairs: both fit; only the later one does not;
\* only the earlier one does not; a negative one
RxDutyCycleArgs == {<<1, 2>>, <<16777215, 16777216>>, <<16777216, 5>>, <<5, -1>>}

\* (freq1, freq2) of CalibrateImage
ImageArgs == {<<\H16B, -145>>}

\* (paDutyCycle, hpMax, deviceSel) of SetPaConfig
PaConfigArgs == {<<\H04, \H07, \H00>>}

\* (address, payload length) of WriteRegister; 97 bytes is the longest
\* payload whose frame fits the buffer
WriteRegisterArgs == {<<\H0740, 2>>, <<\H0740, 97>>, <<\H0740, 98>>, <<65536, 2>>, <<-1, 0>>}

\* (address, read_length) of ReadRegister; 96 is the longest read whose frame
\* fits the buffer
ReadRegisterArgs ==
    {<<\H0740, 4>>, <<0, 0>>, <<\HFFFF, 96>>, <<\H0740, 97>>, <<\H0740, 255>>,
     <<65536, 4>>, <<\H0740, -1>>, <<\H0740, -2>>}

\* (offset, payload length) of WriteBuffer; 98 bytes is the longest payload
WriteBufferArgs == {<<-1, 2>>, <<\H80, 0>>, <<300, 98>>, <<5, 99>>}

\* (offset, read_length) of ReadBuffer; 97 is the longest read
ReadBufferArgs ==
    {<<-1, 4>>, <<\H80, 0>>, <<300, 97>>, <<5, 98>>, <<5, 255>>, <<5, -1>>, <<5, -2>>}

\* (IrqMask, DIO1Mask, DIO2Mask, DIO3Mask)
DioIrqArgs ==
    {<<\H03FF, \H0001, 0, 0>>, <<\HFFFF, \H0202, \H0100, \H0002>>,
     <<65536, 1, 0, 0>>, <<\H03FF, 1, 0, 65537>>, <<-1, 1, 0, 0>>}

ClearIrqArgs == {\H03FF, 65536, -1}

\* (tcxoVoltage, delay)
TcxoArgs == {<<\H0A, \H000140>>, <<1, 16777216>>, <<1, -1>>}

\* RfFreq = hi * 65536 + lo with 0 <= lo < 65536: an RfFreq that does not
\* fit 32 bits is beyond the integers the checker computes with, so the
\* argument is carried as this pair (868 MHz is 0x36400000).
RfFreqArgs == {<<\H3640, \H0001>>, <<65536, 0>>, <<-1, \HFFFF>>}

\* (power, RampTime)
TxParamsArgs == {<<-9, \H0C>>}

ModulationArgs == {<<\H107, -1, 2, 3, 4, 5, 6, 511>>}

PacketArgs == {<<\H1FF, 1, 2, 3, 4, 5, 6, 7, -2>>}

\* (cadSymbolNum, cadDetPeak, cadDetMin, cadExitMode, cadTimeout)
CadArgs == {<<\H102, 22, 10, 0, 16777215>>, <<2, 22, 10, 0, 16777216>>, <<1, 1, 1, 1, -1>>}

BaseAddressArgs == {<<\H180, -1>>}

----------------------------------------------------------------------------
(* 13.1 Operational modes: frame builders *)

SetSleep_cmd_bytes(sleepConfig) == Built(<<\H84, BitAnd(sleepConfig, \HFF)>>)

\* variant: bytes([0x80, StdbyConfig]) without the mask
SetStandby_unmasked(StdbyConfig) ==
    IF StdbyConfig \in Byte THEN Built(<<\H80, StdbyConfig>>) ELSE Failed("ValueError")

SetStandby_cmd_bytes(StdbyConfig) == Built(<<\H80, BitAnd(StdbyConfig, \H01)>>)

SetFs_cmd_bytes == Built(<<\HC1>>)

SetTx_cmd_bytes(timeout) == AppendField(Built(<<\H83>>), timeout, 3)

SetRx_cmd_bytes(timeout) == AppendField(Built(<<\H82>>), timeout, 3)

StopTimerOnPreamble_cmd_bytes(StopOnPreambleParam) ==
    Built(<<\H9F, BitAnd(StopOnPreambleParam, \H01)>>)

SetRxDutyCycle_cmd_bytes(rxPeriod, sleepPeriod) ==
    AppendField(AppendField(Built(<<\H94>>), rxPeriod, 3), sleepPeriod, 3)

SetCAD_cmd_bytes == Built(<<\HC5>>)

SetTxContinuousWave_cmd_bytes == Built(<<\HD1>>)

SetTxInfinitePreamble_cmd_bytes == Built(<<\HD2>>)

SetRegulatorMode_cmd_bytes(regModeParam) == Built(<<\H96, BitAnd(regModeParam, \H01)>>)

Calibrate_cmd_bytes(calibParam) == Built(<<\H89, BitAnd(calibParam, \HFF)>>)

CalibrateImage_cmd_bytes(freq1, freq2) ==
    Built(<<\H98, BitAnd(freq1, \HFF), BitAnd(freq2, \HFF)>>)

\* cmd_bytes += paDutyCycle & 0x07 adds an int to a bytes object: TypeError,
\* whatever the arguments, before the frame is complete.
SetPaConfig_cmd_bytes(paDutyCycle, hpMax, deviceSel) == Failed("TypeError")

SetRxTxFallbackMode_cmd_bytes(fallbackMode) == Built(<<\H93, BitAnd(fallbackMode, \HFF)>>)

----------------------------------------------------------------------------
(* 13.2 Registers and buffer access *)

\* cmd_bytes += bytes(n): n NOP bytes; bytes() of a negative count raises
AppendNops(built, n) ==
    IF built.raised # "none" THEN built
    ELSE IF n < 0 THEN Failed("ValueError")
    ELSE Built(built.cmd_bytes \o Nops(n))

AppendBytes(built, b) ==
    IF built.raised # "none" THEN built ELSE Built(built.cmd_bytes \o b)

WriteRegister_cmd_bytes(write_address, write_bytes) ==
    AppendBytes(AppendField(Built(<<\H0D>>), write_address, 2), write_bytes)

WriteRegister_return(res) == [status |-> res[2]]

\* variant: one NOP short
ReadRegister_short(read_address, read_length) ==
    AppendNops(AppendField(Built(<<\H1D>>), read_address, 2), read_length)

ReadRegister_cmd_bytes(read_address, read_length) ==
    AppendNops(AppendField(Built(<<\H1D>>), read_address, 2), read_length + 1)

\* cmd_result[3] of a 3-byte result (read_length = -1) is an IndexError
ReadRegister_return(res) ==
    IF Len(res) <= 3 THEN Raise("IndexError")
    ELSE [status |-> res[4], data |-> SliceFrom(res, 4)]

\* variant: bytes([offset]) without the mask
WriteBuffer_unmasked(offset, write_bytes) ==
    IF offset \in Byte THEN AppendBytes(Built(<<\H0E, offset>>), write_bytes)
    ELSE Failed("ValueError")

WriteBuffer_cmd_bytes(offset, write_bytes) ==
    AppendBytes(Built(<<\H0E, BitAnd(offset, \HFF)>>), write_bytes)

WriteBuffer_return(res) == [status |-> res[2]]

ReadBuffer_cmd_bytes(offset, read_length) ==
    AppendNops(Built(<<\H1E, BitAnd(offset, \HFF)>>), read_length + 1)

\* cmd_result[2] of a 2-byte result (read_length = -1) is an IndexError
ReadBuffer_return(res) ==
    IF Len(res) <= 2 THEN Raise("IndexError")
    ELSE [status |-> res[3], data |-> SliceFrom(res, 3)]

----------------------------------------------------------------------------
(* 13.3 DIO and IRQ control *)

SetDioIrqParams_cmd_bytes(IrqMask, DIO1Mask, DIO2Mask, DIO3Mask) ==
    AppendField(AppendField(AppendField(AppendField(Built(<<\H08>>),
        IrqMask, 2), DIO1Mask, 2), DIO2Mask, 2), DIO3Mask, 2)

GetIrqStatus_cmd_bytes == Built(<<\H12, \H00, \H00, \H00>>)

GetIrqStatus_return(res) == [status |-> res[2], IrqStatus |-> SliceFrom(res, 2)]

ClearIrqStatus_cmd_bytes(ClearIrqParam) == AppendField(Built(<<\H02>>), ClearIrqParam, 2)

SetDIO2AsRfSwitchCtrl_cmd_bytes(enable) == Built(<<\H9D, BitAnd(enable, \H01)>>)

SetDIO3AsTCXOCtrl_cmd_bytes(tcxoVoltage, delay) ==
    AppendField(Built(<<\H97, BitAnd(tcxoVoltage, \H07)>>), delay, 3)

----------------------------------------------------------------------------
(* 13.4 RF modulation and packet-related functions *)

\* RfFreq.to_bytes(4, 'big') for RfFreq = hi * 65536 + lo, 0 <= lo < 65536:
\* it fits exactly when hi fits 16 bits, and its bytes are those of hi
\* followed by those of lo.
SetRfFrequency_cmd_bytes(hi, lo) ==
    AppendField(AppendField(Built(<<\H86>>), hi, 2), lo, 2)

SetPacketType_cmd_bytes(PacketType) == Built(<<\H8A, BitAnd(PacketType, \H01)>>)

GetPacketType_cmd_bytes == Built(<<\H11, \H00, \H00>>)

\* variant: the packet type read one byte early, where the status is
GetPacketType_early(res) == [status |-> res[2], packetType |-> res[2]]

GetPacketType_return(res) == [status |-> res[2], packetType |-> res[3]]

SetTxParams_cmd_bytes(power, RampTime) ==
    Built(<<\H8E, BitAnd(power, \HFF), BitAnd(RampTime, \H07)>>)

SetModulationParams_cmd_bytes(p) ==
    Built(<<\H8B>> \o [i \in 1..8 |-> BitAnd(p[i], \HFF)])

SetPacketParams_cmd_bytes(p) ==
    Built(<<\H8C>> \o [i \in 1..9 |-> BitAnd(p[i], \HFF)])

SetCadParams_cmd_bytes(cadSymbolNum, cadDetPeak, cadDetMin, cadExitMode, cadTimeout) ==
    AppendField(Built(<<\H88, BitAnd(cadSymbolNum, \HFF), BitAnd(cadDetPeak, \HFF),
                        BitAnd(cadDetMin, \HFF), BitAnd(cadExitMode, \HFF)>>),
                cadTimeout, 3)

SetBufferBaseAddress_cmd_bytes(txBaseAddress, rxBaseAddress) ==
    Built(<<\H8F, BitAnd(txBaseAddress, \HFF), BitAnd(rxBaseAddress, \HFF)>>)

SetLoRaSymbNumTimeout_cmd_bytes(SymbNum) == Built(<<\HA0, BitAnd(SymbNum, \HFF)>>)

----------------------------------------------------------------------------
(* 13.5 Communication status information, 13.6 Miscellaneous *)

GetStatus_cmd_bytes == Built(<<\HC0, \H00>>)

\* variant: the byte clocked in while the opcode went out
GetStatus_echo(res) == [status |-> res[1]]

GetStatus_return(res) == [status |-> res[2]]

GetRxBufferStatus_cmd_bytes == Built(<<\H13, \H00, \H00, \H00>>)

GetRxBufferStatus_return(res) ==
    [status |-> res[2], PayloadLengthRx |-> res[3], RxStartBufferPointer |-> res[4]]

GetPacketStatus_cmd_bytes == Built(<<\H13, \H00, \H00, \H00, \H00>>)

GetPacketStatus_return(res) == [status |-> res[2], data |-> SliceFrom(res, 2)]

GetRssiInst_cmd_bytes == Built(<<\H15, \H00, \H00>>)

GetRssiInst_return(res) == [status |-> res[2], RssiInst |-> res[3]]

GetStats_cmd_bytes == Built(<<\H10, \H00, \H00, \H00, \H00, \H00, \H00, \H00>>)

GetStats_return(res) == [status |-> res[2], data |-> SliceFrom(res, 2)]

ResetStats_cmd_bytes == Built(<<\H00, \H00, \H00, \H00, \H00, \H00, \H00>>)

GetDeviceErrors_cmd_bytes == Built(<<\H17, \H00, \H00, \H00>>)

GetDeviceErrors_return(res) == [status |-> res[2], OpError |-> SliceFrom(res, 2)]

ClearDeviceErrors_cmd_bytes == Built(<<\H07, \H00, \H00>>)

ClearDeviceErrors_return(res) == [status |-> res[2]]

----------------------------------------------------------------------------
(* The shape of every public call *)

\* what a method returns once _send_command has handed back res: the
\* dictionary it builds, or None when it has no return statement
Return(name, res) ==
    CASE name = "WriteRegister"     -> WriteRegister_return(res)
      [] name = "ReadRegister"      -> ReadRegister_return(res)
      [] name = "WriteBuffer"       -> WriteBuffer_return(res)
      [] name = "ReadBuffer"        -> ReadBuffer_return(res)
      [] name = "GetIrqStatus"      -> GetIrqStatus_return(res)
      [] name = "GetPacketType"     -> GetPacketType_return(res)
      [] name = "GetStatus"         -> GetStatus_return(res)
      [] name = "GetRxBufferStatus" -> GetRxBufferStatus_return(res)
      [] name = "GetPacketStatus"   -> GetPacketStatus_return(res)
      [] name = "GetRssiInst"       -> GetRssiInst_return(res)
      [] name = "GetStats"          -> GetStats_return(res)
      [] name = "GetDeviceErrors"   -> GetDeviceErrors_return(res)
      [] name = "ClearDeviceErrors" -> ClearDeviceErrors_return(res)
      [] OTHER                      -> None

\* The ways the bridge can behave during a call: those of Transport when the
\* call builds its frame, none to choose from when it raises before that.
Reached(built) == IF built.raised = "none" THEN Transport ELSE {NoTransport}

SessionReached(built) == IF built.raised = "none" THEN SessionTransport ELSE {NoTransport}

\* variant: SetPacketType is refused when the commands so far left the chip
\* in RX (a mode check the driver does not make)
Perform_mode_checked(name, a, d, built, t) ==
    LET r   == _send_command(buffer, built.cmd_bytes, t)
        ret == Return(name, r.cmd_result)
    IN  /\ constructed = "ok"
        /\ calls' = calls + 1
        /\ args' = a
        /\ data' = d
        /\ IF built.raised # "none" \/ (name = "SetPacketType" /\ mode = "RX")
           THEN /\ raised' = (IF built.raised # "none" THEN built.raised ELSE "ModePrecondition")
                /\ result' = Raise(raised')
                /\ sent' = <<>>
                /\ cmd_result' = <<>>
                /\ opens' = 0
                /\ closes' = 0
                /\ UNCHANGED buffer
           ELSE /\ buffer' = r.buffer
                /\ sent' = r.sent
                /\ cmd_result' = r.cmd_result
                /\ opens' = r.opens
                /\ closes' = r.closes
                /\ IF r.raised # "none"
                   THEN /\ raised' = r.raised
                        /\ result' = Raise(r.raised)
                   ELSE /\ raised' = IF "exception" \in DOMAIN ret
                                     THEN ret.exception ELSE "none"
                        /\ result' = ret

\* One public method call: the frame builder ran (built), then - if it built
\* a frame - _send_command on a bridge behaving as t, then the method's own
\* return expression.  The method's action records which method it was.
Perform(name, a, d, built, t) ==
    LET r   == _send_command(buffer, built.cmd_bytes, t)
        ret == Return(name, r.cmd_result)
    IN  /\ constructed = "ok"
        /\ calls' = calls + 1
        /\ args' = a
        /\ data' = d
        /\ IF built.raised # "none"
           THEN /\ raised' = built.raised
                /\ result' = Raise(built.raised)
                /\ sent' = <<>>
                /\ cmd_result' = <<>>
                /\ opens' = 0
                /\ closes' = 0
                /\ UNCHANGED buffer
           ELSE /\ buffer' = r.buffer
                /\ sent' = r.sent
                /\ cmd_result' = r.cmd_result
                /\ opens' = r.opens
                /\ closes' = r.closes
                /\ IF r.raised # "none"
                   THEN /\ raised' = r.raised
                        /\ result' = Raise(r.raised)
                   ELSE /\ raised' = IF "exception" \in DOMAIN ret
                                     THEN ret.exception ELSE "none"
                        /\ result' = ret

\* a call on an instance used by one caller, on its own
Call(name, a, d, built, t) ==
    /\ calls < MaxCalls
    /\ Perform(name, a, d, built, t)
    /\ UNCHANGED <<construction, session, simulation, threads>>

----------------------------------------------------------------------------
(* The public methods of Sx126x, one action each *)

SetSleep ==
    \E sleepConfig \in ByteArgs :
        \E t \in Reached(SetSleep_cmd_bytes(sleepConfig)) :
            /\ op' = "SetSleep"
            /\ Call("SetSleep", <<sleepConfig>>, <<>>, SetSleep_cmd_bytes(sleepConfig), t)

SetStandby ==
    \E StdbyConfig \in MaskArgs :
        \E t \in Reached(SetStandby_cmd_bytes(StdbyConfig)) :
            /\ op' = "SetStandby"
            /\ Call("SetStandby", <<StdbyConfig>>, <<>>, SetStandby_cmd_bytes(StdbyConfig), t)

SetFs ==
    \E t \in Reached(SetFs_cmd_bytes) :
        /\ op' = "SetFs"
        /\ Call("SetFs", <<>>, <<>>, SetFs_cmd_bytes, t)

SetTx ==
    \E timeout \in Timeouts :
        \E t \in Reached(SetTx_cmd_bytes(timeout)) :
            /\ op' = "SetTx"
            /\ Call("SetTx", <<timeout>>, <<>>, SetTx_cmd_bytes(timeout), t)

SetRx ==
    \E timeout \in Timeouts :
        \E t \in Reached(SetRx_cmd_bytes(timeout)) :
            /\ op' = "SetRx"
            /\ Call("SetRx", <<timeout>>, <<>>, SetRx_cmd_bytes(timeout), t)

StopTimerOnPreamble ==
    \E StopOnPreambleParam \in ByteArgs :
        \E t \in Reached(StopTimerOnPreamble_cmd_bytes(StopOnPreambleParam)) :
            /\ op' = "StopTimerOnPreamble"
            /\ Call("StopTimerOnPreamble", <<StopOnPreambleParam>>, <<>>, StopTimerOnPreamble_cmd_bytes(StopOnPreambleParam), t)

SetRxDutyCycle ==
    \E a \in RxDutyCycleArgs :
        \E t \in Reached(SetRxDutyCycle_cmd_bytes(a[1], a[2])) :
            /\ op' = "SetRxDutyCycle"
            /\ Call("SetRxDutyCycle", a, <<>>, SetRxDutyCycle_cmd_bytes(a[1], a[2]), t)

SetCAD ==
    \E t \in Reached(SetCAD_cmd_bytes) :
        /\ op' = "SetCAD"
        /\ Call("SetCAD", <<>>, <<>>, SetCAD_cmd_bytes, t)

SetTxContinuousWave ==
    \E t \in Reached(SetTxContinuousWave_cmd_bytes) :
        /\ op' = "SetTxContinuousWave"
        /\ Call("SetTxContinuousWave", <<>>, <<>>, SetTxContinuousWave_cmd_bytes, t)

SetTxInfinitePreamble ==
    \E t \in Reached(SetTxInfinitePreamble_cmd_bytes) :
        /\ op' = "SetTxInfinitePreamble"
        /\ Call("SetTxInfinitePreamble", <<>>, <<>>, SetTxInfinitePreamble_cmd_bytes, t)

SetRegulatorMode ==
    \E regModeParam \in MaskArgs :
        \E t \in Reached(SetRegulatorMode_cmd_bytes(regModeParam)) :
            /\ op' = "SetRegulatorMode"
            /\ Call("SetRegulatorMode", <<regModeParam>>, <<>>, SetRegulatorMode_cmd_bytes(regModeParam), t)

Calibrate ==
    \E calibParam \in MaskArgs :
        \E t \in Reached(Calibrate_cmd_bytes(calibParam)) :
            /\ op' = "Calibrate"
            /\ Call("Calibrate", <<calibParam>>, <<>>, Calibrate_cmd_bytes(calibParam), t)

CalibrateImage ==
    \E a \in ImageArgs :
        \E t \in Reached(CalibrateImage_cmd_bytes(a[1], a[2])) :
            /\ op' = "CalibrateImage"
            /\ Call("CalibrateImage", a, <<>>, CalibrateImage_cmd_bytes(a[1], a[2]), t)

SetPaConfig ==
    \E a \in PaConfigArgs :
        \E t \in Reached(SetPaConfig_cmd_bytes(a[1], a[2], a[3])) :
            /\ op' = "SetPaConfig"
            /\ Call("SetPaConfig", a, <<>>, SetPaConfig_cmd_bytes(a[1], a[2], a[3]), t)

SetRxTxFallbackMode ==
    \E fallbackMode \in ByteArgs :
        \E t \in Reached(SetRxTxFallbackMode_cmd_bytes(fallbackMode)) :
            /\ op' = "SetRxTxFallbackMode"
            /\ Call("SetRxTxFallbackMode", <<fallbackMode>>, <<>>, SetRxTxFallbackMode_cmd_bytes(fallbackMode), t)

WriteRegister ==
    \E a \in WriteRegisterArgs :
        \E t \in Reached(WriteRegister_cmd_bytes(a[1], Payload(a[2]))) :
            /\ op' = "WriteRegister"
            /\ Call("WriteRegister", <<a[1]>>, Payload(a[2]), WriteRegister_cmd_bytes(a[1], Payload(a[2])), t)

ReadRegister ==
    \E a \in ReadRegisterArgs :
        \E t \in Reached(ReadRegister_cmd_bytes(a[1], a[2])) :
            /\ op' = "ReadRegister"
            /\ Call("ReadRegister", a, <<>>, ReadRegister_cmd_bytes(a[1], a[2]), t)

WriteBuffer ==
    \E a \in WriteBufferArgs :
        \E t \in Reached(WriteBuffer_cmd_bytes(a[1], Payload(a[2]))) :
            /\ op' = "WriteBuffer"
            /\ Call("WriteBuffer", <<a[1]>>, Payload(a[2]), WriteBuffer_cmd_bytes(a[1], Payload(a[2])), t)

ReadBuffer ==
    \E a \in ReadBufferArgs :
        \E t \in Reached(ReadBuffer_cmd_bytes(a[1], a[2])) :
            /\ op' = "ReadBuffer"
            /\ Call("ReadBuffer", a, <<>>, ReadBuffer_cmd_bytes(a[1], a[2]), t)

SetDioIrqParams ==
    \E a \in DioIrqArgs :
        \E t \in Reached(SetDioIrqParams_cmd_bytes(a[1], a[2], a[3], a[4])) :
            /\ op' = "SetDioIrqParams"
            /\ Call("SetDioIrqParams", a, <<>>, SetDioIrqParams_cmd_bytes(a[1], a[2], a[3], a[4]), t)

GetIrqStatus ==
    \E t \in Reached(GetIrqStatus_cmd_bytes) :
        /\ op' = "GetIrqStatus"
        /\ Call("GetIrqStatus", <<>>, <<>>, GetIrqStatus_cmd_bytes, t)

ClearIrqStatus ==
    \E ClearIrqParam \in ClearIrqArgs :
        \E t \in Reached(ClearIrqStatus_cmd_bytes(ClearIrqParam)) :
            /\ op' = "ClearIrqStatus"
            /\ Call("ClearIrqStatus", <<ClearIrqParam>>, <<>>, ClearIrqStatus_cmd_bytes(ClearIrqParam), t)

SetDIO2AsRfSwitchCtrl ==
    \E enable \in ByteArgs :
        \E t \in Reached(SetDIO2AsRfSwitchCtrl_cmd_bytes(enable)) :
            /\ op' = "SetDIO2AsRfSwitchCtrl"
            /\ Call("SetDIO2AsRfSwitchCtrl", <<enable>>, <<>>, SetDIO2AsRfSwitchCtrl_cmd_bytes(enable), t)

SetDIO3AsTCXOCtrl ==
    \E a \in TcxoArgs :
        \E t \in Reached(SetDIO3AsTCXOCtrl_cmd_bytes(a[1], a[2])) :
            /\ op' = "SetDIO3AsTCXOCtrl"
            /\ Call("SetDIO3AsTCXOCtrl", a, <<>>, SetDIO3AsTCXOCtrl_cmd_bytes(a[1], a[2]), t)

SetRfFrequency ==
    \E a \in RfFreqArgs :
        \E t \in Reached(SetRfFrequency_cmd_bytes(a[1], a[2])) :
            /\ op' = "SetRfFrequency"
            /\ Call("SetRfFrequency", a, <<>>, SetRfFrequency_cmd_bytes(a[1], a[2]), t)

SetPacketType ==
    \E PacketType \in MaskArgs :
        \E t \in Reached(SetPacketType_cmd_bytes(PacketType)) :
            /\ op' = "SetPacketType"
            /\ Call("SetPacketType", <<PacketType>>, <<>>, SetPacketType_cmd_bytes(PacketType), t)

GetPacketType ==
    \E t \in Reached(GetPacketType_cmd_bytes) :
        /\ op' = "GetPacketType"
        /\ Call("GetPacketType", <<>>, <<>>, GetPacketType_cmd_bytes, t)

SetTxParams ==
    \E a \in TxParamsArgs :
        \E t \in Reached(SetTxParams_cmd_bytes(a[1], a[2])) :
            /\ op' = "SetTxParams"
            /\ Call("SetTxParams", a, <<>>, SetTxParams_cmd_bytes(a[1], a[2]), t)

SetModulationParams ==
    \E a \in ModulationArgs :
        \E t \in Reached(SetModulationParams_cmd_bytes(a)) :
            /\ op' = "SetModulationParams"
            /\ Call("SetModulationParams", a, <<>>, SetModulationParams_cmd_bytes(a), t)

SetPacketParams ==
    \E a \in PacketArgs :
        \E t \in Reached(SetPacketParams_cmd_bytes(a)) :
            /\ op' = "SetPacketParams"
            /\ Call("SetPacketParams", a, <<>>, SetPacketParams_cmd_bytes(a), t)

SetCadParams ==
    \E a \in CadArgs :
        \E t \in Reached(SetCadParams_cmd_bytes(a[1], a[2], a[3], a[4], a[5])) :
            /\ op' = "SetCadParams"
            /\ Call("SetCadParams", a, <<>>, SetCadParams_cmd_bytes(a[1], a[2], a[3], a[4], a[5]), t)

SetBufferBaseAddress ==
    \E a \in BaseAddressArgs :
        \E t \in Reached(SetBufferBaseAddress_cmd_bytes(a[1], a[2])) :
            /\ op' = "SetBufferBaseAddress"
            /\ Call("SetBufferBaseAddress", a, <<>>, SetBufferBaseAddress_cmd_bytes(a[1], a[2]), t)

SetLoRaSymbNumTimeout ==
    \E SymbNum \in ByteArgs :
        \E t \in Reached(SetLoRaSymbNumTimeout_cmd_bytes(SymbNum)) :
            /\ op' = "SetLoRaSymbNumTimeout"
            /\ Call("SetLoRaSymbNumTimeout", <<SymbNum>>, <<>>, SetLoRaSymbNumTimeout_cmd_bytes(SymbNum), t)

GetStatus ==
    \E t \in Reached(GetStatus_cmd_bytes) :
        /\ op' = "GetStatus"
        /\ Call("GetStatus", <<>>, <<>>, GetStatus_cmd_bytes, t)

GetRxBufferStatus ==
    \E t \in Reached(GetRxBufferStatus_cmd_bytes) :
        /\ op' = "GetRxBufferStatus"
        /\ Call("GetRxBufferStatus", <<>>, <<>>, GetRxBufferStatus_cmd_bytes, t)

GetPacketStatus ==
    \E t \in Reached(GetPacketStatus_cmd_bytes) :
        /\ op' = "GetPacketStatus"
        /\ Call("GetPacketStatus", <<>>, <<>>, GetPacketStatus_cmd_bytes, t)

GetRssiInst ==
    \E t \in Reached(GetRssiInst_cmd_bytes) :
        /\ op' = "GetRssiInst"
        /\ Call("GetRssiInst", <<>>, <<>>, GetRssiInst_cmd_bytes, t)

GetStats ==
    \E t \in Reached(GetStats_cmd_bytes) :
        /\ op' = "GetStats"
        /\ Call("GetStats", <<>>, <<>>, GetStats_cmd_bytes, t)

ResetStats ==
    \E t \in Reached(ResetStats_cmd_bytes) :
        /\ op' = "ResetStats"
        /\ Call("ResetStats", <<>>, <<>>, ResetStats_cmd_bytes, t)

GetDeviceErrors ==
    \E t \in Reached(GetDeviceErrors_cmd_bytes) :
        /\ op' = "GetDeviceErrors"
        /\ Call("GetDeviceErrors", <<>>, <<>>, GetDeviceErrors_cmd_bytes, t)

ClearDeviceErrors ==
    \E t \in Reached(ClearDeviceErrors_cmd_bytes) :
        /\ op' = "ClearDeviceErrors"
        /\ Call("ClearDeviceErrors", <<>>, <<>>, ClearDeviceErrors_cmd_bytes, t)

Operations ==
    {"SetSleep", "SetStandby", "SetFs", "SetTx",
     "SetRx", "StopTimerOnPreamble", "SetRxDutyCycle", "SetCAD",
     "SetTxContinuousWave", "SetTxInfinitePreamble", "SetRegulatorMode", "Calibrate",
     "CalibrateImage", "SetPaConfig", "SetRxTxFallbackMode", "WriteRegister",
     "ReadRegister", "WriteBuffer", "ReadBuffer", "SetDioIrqParams",
     "GetIrqStatus", "ClearIrqStatus", "SetDIO2AsRfSwitchCtrl", "SetDIO3AsTCXOCtrl",
     "SetRfFrequency", "SetPacketType", "GetPacketType", "SetTxParams",
     "SetModulationParams", "SetPacketParams", "SetCadParams", "SetBufferBaseAddress",
     "SetLoRaSymbNumTimeout", "GetStatus", "GetRxBufferStatus", "GetPacketStatus",
     "GetRssiInst", "GetStats", "ResetStats", "GetDeviceErrors",
     "ClearDeviceErrors"}

Next ==
    \/ SetSleep
    \/ SetStandby
    \/ SetFs
    \/ SetTx
    \/ SetRx
    \/ StopTimerOnPreamble
    \/ SetRxDutyCycle
    \/ SetCAD
    \/ SetTxContinuousWave
    \/ SetTxInfinitePreamble
    \/ SetRegulatorMode
    \/ Calibrate
    \/ CalibrateImage
    \/ SetPaConfig
    \/ SetRxTxFallbackMode
    \/ WriteRegister
    \/ ReadRegister
    \/ WriteBuffer
    \/ ReadBuffer
    \/ SetDioIrqParams
    \/ GetIrqStatus
    \/ ClearIrqStatus
    \/ SetDIO2AsRfSwitchCtrl
    \/ SetDIO3AsTCXOCtrl
    \/ SetRfFrequency
    \/ SetPacketType
    \/ GetPacketType
    \/ SetTxParams
    \/ SetModulationParams
    \/ SetPacketParams
    \/ SetCadParams
    \/ SetBufferBaseAddress
    \/ SetLoRaSymbNumTimeout
    \/ GetStatus
    \/ GetRxBufferStatus
    \/ GetPacketStatus
    \/ GetRssiInst
    \/ GetStats
    \/ ResetStats
    \/ GetDeviceErrors
    \/ ClearDeviceErrors

Spec == Init /\ [][Next]_vars

----------------------------------------------------------------------------
(* GetStatus against a chip that may answer any status byte *)

\* a working bridge and, at response offset 1, every status byte 0..255
StatusAnswers ==
    {[open |-> TRUE, ok |-> TRUE, touched |-> TRUE, seed |-> (b + 255) % 256] : b \in Byte}

GetStatusAnyAnswer ==
    \E t \in StatusAnswers :
        /\ op' = "GetStatus"
        /\ Call("GetStatus", <<>>, <<>>, GetStatus_cmd_bytes, t)

StatusNext == GetStatusAnyAnswer

StatusSpec == Init /\ [][StatusNext]_vars

----------------------------------------------------------------------------
(* A session: mode commands, SetPacketType and GetStatus in any order, with *)
(* the history the properties about sequences of calls refer to            *)

MaxSession == 3

\* the chip mode a status byte reports in bits 6:4 (GetStatus docstring)
ChipMode(status) ==
    CASE (status \div 16) % 8 = 2 -> "STDBY_RC"
      [] (status \div 16) % 8 = 3 -> "STDBY_XOSC"
      [] (status \div 16) % 8 = 4 -> "FS"
      [] (status \div 16) % 8 = 5 -> "RX"
      [] (status \div 16) % 8 = 6 -> "TX"
      [] OTHER                    -> "unknown"

\* the mode the chip is asked for by a command whose frame was built, the
\* mode a completed GetStatus reports, the mode m as it was otherwise
ModeAfter(name, frame, ret, m) ==
    CASE name = "SetSleep"   -> "SLEEP"
      [] name = "SetStandby" -> (IF frame[2] = 0 THEN "STDBY_RC" ELSE "STDBY_XOSC")
      [] name = "SetFs"      -> "FS"
      [] name \in {"SetTx", "SetTxContinuousWave", "SetTxInfinitePreamble"} -> "TX"
      [] name \in {"SetRx", "SetCAD"} -> "RX"
      [] name = "GetStatus" /\ "status" \in DOMAIN ret -> ChipMode(ret.status)
      [] OTHER -> m

\* one call of the session: the call itself, and the history kept of it
Session(name, a, built, t) ==
    /\ calls < MaxSession
    /\ Perform(name, a, <<>>, built, t)
    /\ before' = raised
    /\ mode' = IF built.raised = "none"
               THEN ModeAfter(name, built.cmd_bytes, result', mode)
               ELSE mode
    /\ UNCHANGED <<construction, simulation, threads>>

SessionTimeouts == {0, 1193046, 16777216}

SessionBits == {0, 1}

SessionSetSleep ==
    \E t \in SessionReached(SetSleep_cmd_bytes(0)) :
        /\ op' = "SetSleep"
        /\ Session("SetSleep", <<0>>, SetSleep_cmd_bytes(0), t)

SessionSetStandby ==
    \E StdbyConfig \in SessionBits :
        \E t \in SessionReached(SetStandby_cmd_bytes(StdbyConfig)) :
            /\ op' = "SetStandby"
            /\ Session("SetStandby", <<StdbyConfig>>, SetStandby_cmd_bytes(StdbyConfig), t)

SessionSetFs ==
    \E t \in SessionReached(SetFs_cmd_bytes) :
        /\ op' = "SetFs"
        /\ Session("SetFs", <<>>, SetFs_cmd_bytes, t)

SessionSetTx ==
    \E timeout \in SessionTimeouts :
        \E t \in SessionReached(SetTx_cmd_bytes(timeout)) :
            /\ op' = "SetTx"
            /\ Session("SetTx", <<timeout>>, SetTx_cmd_bytes(timeout), t)

SessionSetRx ==
    \E timeout \in SessionTimeouts :
        \E t \in SessionReached(SetRx_cmd_bytes(timeout)) :
            /\ op' = "SetRx"
            /\ Session("SetRx", <<timeout>>, SetRx_cmd_bytes(timeout), t)

SessionSetCAD ==
    \E t \in SessionReached(SetCAD_cmd_bytes) :
        /\ op' = "SetCAD"
        /\ Session("SetCAD", <<>>, SetCAD_cmd_bytes, t)

SessionSetTxContinuousWave ==
    \E t \in SessionReached(SetTxContinuousWave_cmd_bytes) :
        /\ op' = "SetTxContinuousWave"
        /\ Session("SetTxContinuousWave", <<>>, SetTxContinuousWave_cmd_bytes, t)

SessionSetTxInfinitePreamble ==
    \E t \in SessionReached(SetTxInfinitePreamble_cmd_bytes) :
        /\ op' = "SetTxInfinitePreamble"
        /\ Session("SetTxInfinitePreamble", <<>>, SetTxInfinitePreamble_cmd_bytes, t)

SessionSetPacketType ==
    \E PacketType \in SessionBits :
        \E t \in SessionReached(SetPacketType_cmd_bytes(PacketType)) :
            /\ op' = "SetPacketType"
            /\ Session("SetPacketType", <<PacketType>>, SetPacketType_cmd_bytes(PacketType), t)

SessionGetStatus ==
    \E t \in SessionReached(GetStatus_cmd_bytes) :
        /\ op' = "GetStatus"
        /\ Session("GetStatus", <<>>, GetStatus_cmd_bytes, t)

SessionOperations ==
    {"SetSleep", "SetStandby", "SetFs", "SetTx", "SetRx", "SetCAD", "SetTxContinuousWave",
     "SetTxInfinitePreamble", "SetPacketType", "GetStatus"}

SessionNext ==
    \/ SessionSetSleep
    \/ SessionSetStandby
    \/ SessionSetFs
    \/ SessionSetTx
    \/ SessionSetRx
    \/ SessionSetCAD
    \/ SessionSetTxContinuousWave
    \/ SessionSetTxInfinitePreamble
    \/ SessionSetPacketType
    \/ SessionGetStatus

SessionSpec == Init /\ [][SessionNext]_vars

----------------------------------------------------------------------------
(* The script of test1.py against a simulated chip: a bridge that always   *)
(* works and a chip that keeps the packet type it is sent                   *)

MaxSimulated == 6

\* the register after the chip received frame: SetPacketType (0x8A) writes
\* its parameter byte, every other command leaves the register alone
ChipStores(frame, register) == IF frame[1] = \H8A THEN frame[2] ELSE register

\* the bridge with the simulated chip behind it: GetPacketType (0x11) is
\* answered with the register at response offset 2, after the status
SimulatedChip(frame) ==
    [open |-> TRUE, ok |-> TRUE, touched |-> TRUE,
     seed |-> IF frame[1] = \H11 THEN (chip + 254) % 256 ELSE 35]

Simulated(name, a, built) ==
    /\ calls < MaxSimulated
    /\ Perform(name, a, <<>>, built, SimulatedChip(built.cmd_bytes))
    /\ chip' = ChipStores(built.cmd_bytes, chip)
    /\ passed' = IF name = "SetPacketType" THEN a ELSE passed
    /\ UNCHANGED <<construction, session, threads>>

SimulatedPacketTypes == {-1, 0, 1, 2, 3}

\* the scenario starts with SetStandby(0)
SimulatedSetStandby ==
    \E StdbyConfig \in (IF calls = 0 THEN {0} ELSE SessionBits) :
        /\ op' = "SetStandby"
        /\ Simulated("SetStandby", <<StdbyConfig>>, SetStandby_cmd_bytes(StdbyConfig))

SimulatedSetPacketType ==
    \E PacketType \in SimulatedPacketTypes :
        /\ calls > 0
        /\ op' = "SetPacketType"
        /\ Simulated("SetPacketType", <<PacketType>>, SetPacketType_cmd_bytes(PacketType))

SimulatedGetPacketType ==
    /\ calls > 0
    /\ op' = "GetPacketType"
    /\ Simulated("GetPacketType", <<>>, GetPacketType_cmd_bytes)

SimulatedGetStatus ==
    /\ calls > 0
    /\ op' = "GetStatus"
    /\ Simulated("GetStatus", <<>>, GetStatus_cmd_bytes)

SimulatedNext ==
    \/ SimulatedSetStandby
    \/ SimulatedGetStatus
    \/ SimulatedSetPacketType
    \/ SimulatedGetPacketType

SimulatedSpec == Init /\ [][SimulatedNext]_vars

----------------------------------------------------------------------------
(* Two callers of one instance in a multi-threaded host.  _send_command    *)
(* holds no lock: a thread switch can fall between loading the buffer, the  *)
(* exchange and reading the response.  Each step below is one of those      *)
(* statements, taken as a whole.                                            *)

\* the frames the callers' methods built (GetStatus, SetPacketType(1),
\* SetTx(0), SetRx(0x123456))
ThreadFrames ==
    {GetStatus_cmd_bytes.cmd_bytes, SetPacketType_cmd_bytes(1).cmd_bytes,
     SetTx_cmd_bytes(0).cmd_bytes, SetRx_cmd_bytes(1193046).cmd_bytes}

\* the bridge works and the chip's answer follows from the frame it is sent
ThreadTransport(frame) == [open |-> TRUE, ok |-> TRUE, touched |-> TRUE, seed |-> frame[1]]

ThreadInit ==
    /\ Constructed
    /\ mode = "STDBY_RC"
    /\ before = "none"
    /\ chip = 0
    /\ passed = <<>>
    /\ serialized \in BOOLEAN
    /\ callers = [c \in Callers |-> Idle]

\* a caller's method has built its frame and calls _send_command; a host
\* that serializes its callers lets it in only when no other call is under way
ThreadEnter(c) ==
    \E frame \in ThreadFrames :
        /\ callers[c].pc = "idle"
        /\ serialized => \A o \in Callers \ {c} : callers[o].pc \in {"idle", "done"}
        /\ callers' = [callers EXCEPT ![c] = [@ EXCEPT !.pc = "load", !.cmd_bytes = frame]]
        /\ UNCHANGED <<instance, construction, session, simulation, serialized>>

\* self.buffer.value = cmd_bytes
ThreadLoad(c) ==
    /\ callers[c].pc = "load"
    /\ buffer' = set_value(buffer, callers[c].cmd_bytes)
    /\ callers' = [callers EXCEPT ![c] = [@ EXCEPT !.pc = "exchange"]]
    /\ UNCHANGED <<calls, op, args, data, raised, sent, cmd_result, result, opens, closes>>
    /\ UNCHANGED <<construction, session, simulation, serialized>>

\* variant: the chip's answer is not written back into the buffer
ThreadExchange_echo(c) ==
    LET byte_count == Len(callers[c].cmd_bytes)
        handed     == SubSeq(buffer, 1, byte_count)
    IN  /\ callers[c].pc = "exchange"
        /\ UNCHANGED buffer
        /\ callers' = [callers EXCEPT ![c] =
                          [@ EXCEPT !.pc = "read", !.handed = handed,
                                    !.answer = Rx(ThreadTransport(handed).seed, byte_count)]]
        /\ UNCHANGED <<calls, op, args, data, raised, sent, cmd_result, result, opens, closes>>
        /\ UNCHANGED <<construction, session, simulation, serialized>>

\* with Ch341Par(...) as device: device.stream_spi_4(cs, byte_count, self.buffer)
\* the first byte_count bytes of the buffer, as they are now, go to the chip,
\* and the chip's answer to them replaces them
ThreadExchange(c) ==
    LET byte_count == Len(callers[c].cmd_bytes)
        handed     == SubSeq(buffer, 1, byte_count)
    IN  /\ callers[c].pc = "exchange"
        /\ buffer' = stream_spi_4(buffer, byte_count, ThreadTransport(handed))
        /\ callers' = [callers EXCEPT ![c] =
                          [@ EXCEPT !.pc = "read", !.handed = handed,
                                    !.answer = Rx(ThreadTransport(handed).seed, byte_count)]]
        /\ UNCHANGED <<calls, op, args, data, raised, sent, cmd_result, result, opens, closes>>
        /\ UNCHANGED <<construction, session, simulation, serialized>>

\* return bytes(self.buffer[:byte_count])
ThreadRead(c) ==
    /\ callers[c].pc = "read"
    /\ callers' = [callers EXCEPT ![c] =
                      [@ EXCEPT !.pc = "done",
                                !.returned = SubSeq(buffer, 1, Len(callers[c].cmd_bytes))]]
    /\ UNCHANGED <<instance, construction, session, simulation, serialized>>

ThreadNext ==
    \E c \in Callers :
        \/ ThreadEnter(c)
        \/ ThreadLoad(c)
        \/ ThreadExchange(c)
        \/ ThreadRead(c)

ThreadSpec == ThreadInit /\ [][ThreadNext]_vars

----------------------------------------------------------------------------
(* Construction: Sx126x(device_id, stream_mode, chip_select) as the script *)
(* test1.py runs it, followed by the calls the script makes                  *)

\* before the constructor runs there is no instance and nothing was called
ConstructInit ==
    /\ buffer = [i \in 1..BufferSize |-> 0]
    /\ calls = 0
    /\ op = "none"
    /\ args = <<>>
    /\ data = <<>>
    /\ raised = "none"
    /\ sent = <<>>
    /\ cmd_result = <<>>
    /\ result = None
    /\ opens = 0
    /\ closes = 0
    /\ constructed = "no"
    /\ streams = 0
    /\ mode = "STDBY_RC"
    /\ before = "none"
    /\ chip = 0
    /\ passed = <<>>
    /\ serialized = TRUE
    /\ callers = [c \in Callers |-> Idle]

\* how the bridge behaves during construction: whether CH341OpenDevice
\* returns a handle and whether CH341SetStream reports success
ConstructTransport ==
    {[open |-> FALSE, stream |-> FALSE], [open |-> TRUE, stream |-> FALSE],
     [open |-> TRUE, stream |-> TRUE]}

\* variant: set_stream called without the with block, so that its failure
\* leaves the device open
__init___leaky ==
    \E t \in ConstructTransport :
        /\ constructed = "no"
        /\ op' = "__init__"
        /\ buffer' = [i \in 1..BufferSize |-> 0]
        /\ opens' = 1
        /\ closes' = IF t.open /\ t.stream THEN 1 ELSE 0
        /\ streams' = IF t.open THEN 1 ELSE 0
        /\ raised' = IF ~t.open THEN "OpenError"
                     ELSE IF ~t.stream THEN "StreamError" ELSE "none"
        /\ result' = IF raised' = "none" THEN None ELSE Raise(raised')
        /\ constructed' = IF raised' = "none" THEN "ok" ELSE "failed"
        /\ UNCHANGED <<calls, args, data, sent, cmd_result>>
        /\ UNCHANGED <<session, simulation, threads>>

\* Sx126x.__init__: the buffer is created, the device is opened (__enter__
\* raises on handle -1 and __exit__ then never runs), set_stream is called
\* (it raises on a false return) and __exit__ closes the device
__init__ ==
    \E t \in ConstructTransport :
        /\ constructed = "no"
        /\ op' = "__init__"
        /\ buffer' = [i \in 1..BufferSize |-> 0]
        /\ opens' = 1
        /\ closes' = IF t.open THEN 1 ELSE 0
        /\ streams' = IF t.open THEN 1 ELSE 0
        /\ raised' = IF ~t.open THEN "OpenError"
                     ELSE IF ~t.stream THEN "StreamError" ELSE "none"
        /\ result' = IF raised' = "none" THEN None ELSE Raise(raised')
        /\ constructed' = IF raised' = "none" THEN "ok" ELSE "failed"
        /\ UNCHANGED <<calls, args, data, sent, cmd_result>>
        /\ UNCHANGED <<session, simulation, threads>>

\* the constructor, then calls on the instance it gave: the methods
\* test1.py calls and the two buffer transfers
ConstructNext ==
    \/ __init__
    \/ GetStatus
    \/ GetPacketType
    \/ SetPacketType
    \/ WriteBuffer
    \/ ReadBuffer

ConstructSpec == ConstructInit /\ [][ConstructNext]_vars

----------------------------------------------------------------------------
(* Vocabulary of the properties *)

\* the last call reached the bridge and the bridge did its part
TransportOutcomes == {"none", "OpenError", "TransferError"}

\* the last call handed exactly one frame to stream_spi_4
Exchanged == Len(sent) = 1

\* the frame of that exchange
Frame == sent[1]

\* the unsigned integer a big-endian field b stands for
RECURSIVE from_bytes(_)
from_bytes(b) ==
    IF b = <<>> THEN 0
    ELSE 256 * from_bytes(SubSeq(b, 1, Len(b) - 1)) + b[Len(b)]

\* v is representable in an unsigned field of the given number of bits
Fits(v, bits) == 0 <= v /\ v < 2 ^ bits

\* the values of the model stand for Python's: None, a raised exception, or
\* the dict a method returns (a record of its keys); no method of Sx126x
\* returns anything else
IsDict(v) == DOMAIN v \cap {"none", "exception"} = {}

\* what the frame builder of a session operation makes of the arguments a,
\* whatever was called before
SessionBuilt(name, a) ==
    CASE name = "SetSleep"              -> SetSleep_cmd_bytes(a[1])
      [] name = "SetStandby"            -> SetStandby_cmd_bytes(a[1])
      [] name = "SetFs"                 -> SetFs_cmd_bytes
      [] name = "SetTx"                 -> SetTx_cmd_bytes(a[1])
      [] name = "SetRx"                 -> SetRx_cmd_bytes(a[1])
      [] name = "SetCAD"                -> SetCAD_cmd_bytes
      [] name = "SetTxContinuousWave"   -> SetTxContinuousWave_cmd_bytes
      [] name = "SetTxInfinitePreamble" -> SetTxInfinitePreamble_cmd_bytes
      [] name = "SetPacketType"         -> SetPacketType_cmd_bytes(a[1])
      [] name = "GetStatus"             -> GetStatus_cmd_bytes

----------------------------------------------------------------------------
\* C1: every public operation, called with arguments that fit their fields
\* on a device that opens, performs exactly one transport exchange (one
\* stream_spi_4 call): never zero, never more than one.
C1_ExactlyOneExchange ==
    (op \in Operations /\ raised \notin {"OverflowError", "ValueError", "OpenError"})
        => Len(sent) = 1

----------------------------------------------------------------------------
\* C2: whenever an exchange completes, the response frame handed back by
\* _send_command has exactly the length of the command frame transmitted.
C2_ResponseLength ==
    (Exchanged /\ raised # "TransferError") => Len(cmd_result) = Len(Frame)

\* a completed exchange of the longest frame the buffer takes
C2_Witness ==
    /\ op = "ReadBuffer"
    /\ raised = "none"
    /\ Exchanged
    /\ Len(Frame) = BufferSize
    /\ Len(cmd_result) = BufferSize

----------------------------------------------------------------------------
\* C3: when a multi-byte big-endian field cannot represent the value passed
\* (too large or negative), the call raises before any transport exchange:
\* nothing is transmitted, the device is not opened and the scratch buffer
\* keeps its contents - also when an earlier field of the same command fits.
FieldOverflow ==
    \/ op \in {"SetTx", "SetRx"} /\ ~Fits(args[1], 24)
    \/ op = "SetRxDutyCycle" /\ (~Fits(args[1], 24) \/ ~Fits(args[2], 24))
    \/ op = "SetCadParams" /\ ~Fits(args[5], 24)
    \/ op = "SetDIO3AsTCXOCtrl" /\ ~Fits(args[2], 24)
    \/ op = "SetRfFrequency" /\ ~Fits(args[1], 16)
    \/ op \in {"WriteRegister", "ReadRegister"} /\ ~Fits(args[1], 16)

C3_RejectedBeforeExchange ==
    [][FieldOverflow' =>
          /\ raised' = "OverflowError"
          /\ sent' = <<>>
          /\ opens' = 0
          /\ buffer' = buffer]_vars

\* SetRxDutyCycle with a fitting rxPeriod and an oversized sleepPeriod,
\* called when the buffer still holds an earlier exchange
C3_Witness ==
    /\ op = "SetRxDutyCycle"
    /\ Fits(args[1], 24)
    /\ ~Fits(args[2], 24)
    /\ raised = "OverflowError"
    /\ sent = <<>>
    /\ buffer[1] # 0

----------------------------------------------------------------------------
\* C4: for a timeout t with 0 <= t < 2^24, SetTx and SetRx are never
\* rejected for the timeout, the frame they transmit is always 4 bytes, its 3
\* parameter bytes are t most significant byte first, and reading them back
\* big-endian gives t.
C4_TimeoutBigEndian ==
    (op \in {"SetTx", "SetRx"} /\ Fits(args[1], 24)) =>
        /\ raised \in TransportOutcomes
        /\ raised # "OpenError" => Exchanged
        /\ Exchanged =>
            /\ Len(Frame) = 4
            /\ Frame[1] = (IF op = "SetTx" THEN \H83 ELSE \H82)
            /\ Frame[2] = args[1] \div 65536
            /\ Frame[3] = (args[1] \div 256) % 256
            /\ Frame[4] = args[1] % 256
            /\ from_bytes(SubSeq(Frame, 2, 4)) = args[1]

C4_Witness ==
    /\ op = "SetTx"
    /\ args = <<1193046>>
    /\ sent = << <<\H83, \H12, \H34, \H56>> >>

----------------------------------------------------------------------------
\* C5: for any integer offset, negative or above 255 included, WriteBuffer
\* and ReadBuffer transmit offset mod 256 as the second byte of the frame,
\* and a call whose payload or read length fits the buffer never fails on
\* account of the offset.
C5_OffsetWraps ==
    /\ (op = "WriteBuffer" /\ Len(data) <= BufferSize - 2) => raised \in TransportOutcomes
    /\ (op = "ReadBuffer" /\ args[2] \in 0..(BufferSize - 3)) => raised \in TransportOutcomes
    /\ (op \in {"WriteBuffer", "ReadBuffer"} /\ raised \in {"none", "TransferError"}) =>
            /\ Exchanged
            /\ Frame[1] = (IF op = "WriteBuffer" THEN \H0E ELSE \H1E)
            /\ Frame[2] = args[1] % 256

C5_Witness ==
    /\ op = "WriteBuffer"
    /\ args[1] < 0
    /\ raised = "none"
    /\ Exchanged
    /\ Frame[2] = 255

----------------------------------------------------------------------------
----------------------------------------------------------------------------
\* C7: for ReadRegister and ReadBuffer and every requested length L in
\* 0..255, on a working transport, the call returns a payload of exactly L
\* bytes: the bytes that follow the status byte, up to the end of the frame.
StatusOffset == IF op = "ReadRegister" THEN 3 ELSE 2

C7_PayloadLength ==
    (/\ op \in {"ReadRegister", "ReadBuffer"}
     /\ args[2] \in 0..255
     /\ raised \notin {"OverflowError", "OpenError", "TransferError"}) =>
        /\ raised = "none"
        /\ Len(result.data) = args[2]
        /\ result.data = SubSeq(cmd_result, StatusOffset + 2, Len(cmd_result))
        /\ Len(cmd_result) = Len(Frame)

----------------------------------------------------------------------------
\* C8 (as stated): SetStandby, SetRegulatorMode, SetPacketType, Calibrate and
\* SetDioIrqParams accept any integer argument: the call never fails because
\* of the argument's magnitude.
MaskedOps == {"SetStandby", "SetRegulatorMode", "SetPacketType", "Calibrate"}

C8_AnyIntegerAccepted ==
    op \in MaskedOps \cup {"SetDioIrqParams"} => raised \in TransportOutcomes

\* C8 (amended): SetStandby, SetRegulatorMode, SetPacketType and Calibrate
\* accept any integer: the parameter byte transmitted is the argument reduced
\* to the field's width (1 bit, 1 bit, 1 bit, 8 bits) and the call never fails
\* because of the argument.  SetDioIrqParams does not truncate: each mask is
\* a 16-bit big-endian field, and a mask outside 0..65535 makes the call
\* raise OverflowError before any exchange.
FieldWidth == IF op = "Calibrate" THEN 256 ELSE 2

C8_MaskedOrRejected ==
    /\ op \in MaskedOps =>
        /\ raised \in TransportOutcomes
        /\ raised # "OpenError" => Exchanged
        /\ Exchanged =>
            /\ Len(Frame) = 2
            /\ Frame[2] = args[1] % FieldWidth
    /\ op = "SetDioIrqParams" =>
        IF \A i \in 1..4 : Fits(args[i], 16)
        THEN /\ raised \in TransportOutcomes
             /\ Exchanged =>
                    /\ Len(Frame) = 9
                    /\ \A i \in 1..4 : /\ Frame[2 * i] = args[i] \div 256
                                       /\ Frame[2 * i + 1] = args[i] % 256
        ELSE /\ raised = "OverflowError"
             /\ sent = <<>>

\* Calibrate(0x1FF): bit 8 is dropped, 0xFF is transmitted
C8_Witness ==
    /\ op = "Calibrate"
    /\ args = <<511>>
    /\ raised = "none"
    /\ sent = << <<\H89, \HFF>> >>

----------------------------------------------------------------------------
\* C9: each opcode names exactly one operation: the first byte of the frame
\* an operation transmits is the first byte of no other operation's frame.
Opcode(o) ==
    CASE o = "SetSleep"              -> SetSleep_cmd_bytes(0).cmd_bytes[1]
      [] o = "SetStandby"            -> SetStandby_cmd_bytes(0).cmd_bytes[1]
      [] o = "SetFs"                 -> SetFs_cmd_bytes.cmd_bytes[1]
      [] o = "SetTx"                 -> SetTx_cmd_bytes(0).cmd_bytes[1]
      [] o = "SetRx"                 -> SetRx_cmd_bytes(0).cmd_bytes[1]
      [] o = "StopTimerOnPreamble"   -> StopTimerOnPreamble_cmd_bytes(0).cmd_bytes[1]
      [] o = "SetRxDutyCycle"        -> SetRxDutyCycle_cmd_bytes(0, 0).cmd_bytes[1]
      [] o = "SetCAD"                -> SetCAD_cmd_bytes.cmd_bytes[1]
      [] o = "SetTxContinuousWave"   -> SetTxContinuousWave_cmd_bytes.cmd_bytes[1]
      [] o = "SetTxInfinitePreamble" -> SetTxInfinitePreamble_cmd_bytes.cmd_bytes[1]
      [] o = "SetRegulatorMode"      -> SetRegulatorMode_cmd_bytes(0).cmd_bytes[1]
      [] o = "Calibrate"             -> Calibrate_cmd_bytes(0).cmd_bytes[1]
      [] o = "CalibrateImage"        -> CalibrateImage_cmd_bytes(0, 0).cmd_bytes[1]
      [] o = "SetRxTxFallbackMode"   -> SetRxTxFallbackMode_cmd_bytes(0).cmd_bytes[1]
      [] o = "WriteRegister"         -> WriteRegister_cmd_bytes(0, <<>>).cmd_bytes[1]
      [] o = "ReadRegister"          -> ReadRegister_cmd_bytes(0, 0).cmd_bytes[1]
      [] o = "WriteBuffer"           -> WriteBuffer_cmd_bytes(0, <<>>).cmd_bytes[1]
      [] o = "ReadBuffer"            -> ReadBuffer_cmd_bytes(0, 0).cmd_bytes[1]
      [] o = "SetDioIrqParams"       -> SetDioIrqParams_cmd_bytes(0, 0, 0, 0).cmd_bytes[1]
      [] o = "GetIrqStatus"          -> GetIrqStatus_cmd_bytes.cmd_bytes[1]
      [] o = "ClearIrqStatus"        -> ClearIrqStatus_cmd_bytes(0).cmd_bytes[1]
      [] o = "SetDIO2AsRfSwitchCtrl" -> SetDIO2AsRfSwitchCtrl_cmd_bytes(0).cmd_bytes[1]
      [] o = "SetDIO3AsTCXOCtrl"     -> SetDIO3AsTCXOCtrl_cmd_bytes(0, 0).cmd_bytes[1]
      [] o = "SetRfFrequency"        -> SetRfFrequency_cmd_bytes(0, 0).cmd_bytes[1]
      [] o = "SetPacketType"         -> SetPacketType_cmd_bytes(0).cmd_bytes[1]
      [] o = "GetPacketType"         -> GetPacketType_cmd_bytes.cmd_bytes[1]
      [] o = "SetTxParams"           -> SetTxParams_cmd_bytes(0, 0).cmd_bytes[1]
      [] o = "SetModulationParams"   -> SetModulationParams_cmd_bytes(Nops(8)).cmd_bytes[1]
      [] o = "SetPacketParams"       -> SetPacketParams_cmd_bytes(Nops(9)).cmd_bytes[1]
      [] o = "SetCadParams"          -> SetCadParams_cmd_bytes(0, 0, 0, 0, 0).cmd_bytes[1]
      [] o = "SetBufferBaseAddress"  -> SetBufferBaseAddress_cmd_bytes(0, 0).cmd_bytes[1]
      [] o = "SetLoRaSymbNumTimeout" -> SetLoRaSymbNumTimeout_cmd_bytes(0).cmd_bytes[1]
      [] o = "GetStatus"             -> GetStatus_cmd_bytes.cmd_bytes[1]
      [] o = "GetRxBufferStatus"     -> GetRxBufferStatus_cmd_bytes.cmd_bytes[1]
      [] o = "GetPacketStatus"       -> GetPacketStatus_cmd_bytes.cmd_bytes[1]
      [] o = "GetRssiInst"           -> GetRssiInst_cmd_bytes.cmd_bytes[1]
      [] o = "GetStats"              -> GetStats_cmd_bytes.cmd_bytes[1]
      [] o = "ResetStats"            -> ResetStats_cmd_bytes.cmd_bytes[1]
      [] o = "GetDeviceErrors"       -> GetDeviceErrors_cmd_bytes.cmd_bytes[1]
      [] o = "ClearDeviceErrors"     -> ClearDeviceErrors_cmd_bytes.cmd_bytes[1]

\* SetPaConfig never completes a frame, so it has no first byte to compare
Transmitting == Operations \ {"SetPaConfig"}

C9_OpcodeNamesOneOperation ==
    Exchanged =>
        /\ Frame[1] = Opcode(op)
        /\ \A o \in Transmitting \ {op} : Opcode(o) # Frame[1]

----------------------------------------------------------------------------
\* C10 (as stated): the status GetStatus returns is the status byte at
\* response offset 1 decoded into ChipMode = bits[6:4] and
\* CommandStatus = bits[3:1], bits 7 and 0 being dropped.
C10_StatusDecoded ==
    (op = "GetStatus" /\ raised = "none") =>
        /\ {"ChipMode", "CommandStatus"} \subseteq DOMAIN result
        /\ result.ChipMode = (cmd_result[2] \div 16) % 8
        /\ result.CommandStatus = (cmd_result[2] \div 2) % 8

\* C10 (amended): GetStatus transmits C0 00 and returns, under the single key
\* 'status', the status byte at response offset 1 as it was received, all
\* eight bits of it, for every status byte 0..255; no ChipMode or
\* CommandStatus is computed (0x24 is returned as 0x24).
C10_StatusRaw ==
    (op = "GetStatus" /\ raised = "none") =>
        /\ sent = << <<\HC0, \H00>> >>
        /\ DOMAIN result = {"status"}
        /\ result.status = cmd_result[1 + 1]
        /\ result.status = buffer[2]
        /\ result.status \in Byte

\* the worked example: the chip answers status byte 0x24
C10_Witness ==
    /\ op = "GetStatus"
    /\ raised = "none"
    /\ cmd_result[2] = \H24
    /\ result = [status |-> \H24]

----------------------------------------------------------------------------
\* C11 (as stated): when the calls so far leave the host's mode belief at RX
\* (SetRx or SetCAD with no later mode command or GetStatus), SetPacketType
\* raises ModePrecondition (reject mode) or is exchanged with a warning
\* recorded (observe mode).

\* the instance keeps the buffer and three bridge settings; nothing in it
\* records a warning
WarningRecorded == FALSE

C11_ModePrecondition ==
    (op = "SetPacketType" /\ mode = "RX") =>
        \/ raised = "ModePrecondition"
        \/ Exchanged /\ WarningRecorded

\* C11 (amended): when the calls so far leave the chip in RX, SetPacketType
\* is allowed as after any other call: the driver keeps no mode belief and has
\* no reject or observe setting, so no ModePrecondition is raised and no
\* warning is recorded; unless the device cannot be opened the frame
\* 8A, PacketType & 1 is exchanged.
C11_AllowedInRx ==
    (op = "SetPacketType" /\ mode = "RX") =>
        /\ raised \in TransportOutcomes
        /\ raised # "OpenError" => sent = << <<\H8A, args[1] % 2>> >>
        /\ raised = "none" => result = None
        /\ ~WarningRecorded

\* SetRx went out, then SetPacketType(1) was exchanged
C11_Witness ==
    /\ op = "SetPacketType"
    /\ mode = "RX"
    /\ args = <<1>>
    /\ raised = "none"
    /\ sent = << <<\H8A, 1>> >>

----------------------------------------------------------------------------
\* C12 (as stated): against a chip that stores the packet type it receives,
\* after SetStandby(0) and any SetPacketType calls, GetPacketType returns as
\* packetType (response offset 2, after the status at offset 1) the last
\* value passed to SetPacketType.
C12_RoundTrip ==
    (op = "GetPacketType" /\ raised = "none" /\ passed # <<>>) =>
        /\ result.status = cmd_result[1 + 1]
        /\ result.packetType = cmd_result[2 + 1]
        /\ result.packetType = passed[1]

\* C12 (amended): ... GetPacketType returns as packetType (response offset 2,
\* after the status at offset 1) the low bit of the last value passed to
\* SetPacketType (value & 0x01, which is what SetPacketType transmits): the
\* value itself when it is 0 or 1.
C12_RoundTripLowBit ==
    (op = "GetPacketType" /\ raised = "none" /\ passed # <<>>) =>
        /\ result.status = cmd_result[1 + 1]
        /\ result.packetType = cmd_result[2 + 1]
        /\ result.packetType = passed[1] % 2
        /\ passed[1] \in {0, 1} => result.packetType = passed[1]

\* SetStandby(0), SetPacketType(0), SetPacketType(1), GetPacketType
C12_Witness ==
    /\ op = "GetPacketType"
    /\ calls = 4
    /\ passed = <<1>>
    /\ sent = << <<\H11, 0, 0>> >>
    /\ result.packetType = 1
    /\ buffer[2] = 0

----------------------------------------------------------------------------
\* C13: when the bridge reports that the exchange failed, the call raises
\* that failure after one exchange attempt, without retrying; the instance
\* stays usable: the next call builds its own frame and makes its own single
\* exchange, failing only for its own arguments or its own bridge failure.
C13_FailureSurfaced ==
    /\ raised = "TransferError" =>
        /\ Len(sent) = 1
        /\ opens = 1
        /\ closes = 1
        /\ cmd_result = <<>>
        /\ result = Raise("TransferError")
    /\ (before = "TransferError" /\ op \in SessionOperations) =>
        /\ raised \in TransportOutcomes \cup {"OverflowError"}
        /\ raised = "OverflowError" <=> (op \in {"SetTx", "SetRx"} /\ ~Fits(args[1], 24))
        /\ raised \in {"none", "TransferError"} =>
            /\ sent = <<SessionBuilt(op, args).cmd_bytes>>
            /\ opens = 1
            /\ closes = 1
        /\ raised = "none" => Len(cmd_result) = Len(Frame)

\* a call whose transfer failed, then a GetStatus that went through
C13_Witness ==
    /\ before = "TransferError"
    /\ op = "GetStatus"
    /\ raised = "none"
    /\ sent = << <<\HC0, 0>> >>
    /\ result = [status |-> 36]

----------------------------------------------------------------------------
\* C14: GetStatus returns the chip's status byte as a plain integer in
\* 0..255 (a value "0x{:02X}".format accepts), taken from response offset 1
\* of the 2-byte exchange C0 00.
C14_StatusPlainInteger ==
    (op = "GetStatus" /\ raised = "none") =>
        /\ sent = << <<\HC0, \H00>> >>
        /\ ~IsDict(result)
        /\ result \in Byte
        /\ result = cmd_result[1 + 1]

----------------------------------------------------------------------------
\* C15: the frame a call transmits and whether the call is accepted depend
\* only on the call's arguments, never on the calls made before: after any
\* sequence of calls (SetSleep, SetTx, SetRx among them) the frame is the one
\* built from the arguments alone, and a call is rejected only when its own
\* arguments do not fit, never for the mode an earlier command asked for.
C15_HistoryFree ==
    op \in SessionOperations =>
        IF SessionBuilt(op, args).raised = "none"
        THEN /\ raised \in TransportOutcomes
             /\ sent = IF raised = "OpenError" THEN <<>>
                       ELSE <<SessionBuilt(op, args).cmd_bytes>>
        ELSE /\ raised = SessionBuilt(op, args).raised
             /\ sent = <<>>

\* SetPacketType(1) accepted and transmitted as 8A 01 after SetSleep, with
\* no wake-up or other mode command in between
C15_Witness ==
    /\ mode = "SLEEP"
    /\ op = "SetPacketType"
    /\ args = <<1>>
    /\ raised = "none"
    /\ sent = << <<\H8A, 1>> >>

----------------------------------------------------------------------------
\* C16: SetPaConfig(paDutyCycle, hpMax, deviceSel) transmits, in one
\* exchange, the 5-byte frame 0x95, paDutyCycle & 0x07, hpMax & 0x07,
\* deviceSel & 0x01, 0x01 (paLut is always 0x01), whatever the integers.
C16_PaConfigFrame ==
    op = "SetPaConfig" =>
        /\ raised \in TransportOutcomes
        /\ raised # "OpenError" =>
            sent = << <<\H95, BitAnd(args[1], \H07), BitAnd(args[2], \H07),
                        BitAnd(args[3], \H01), \H01>> >>

----------------------------------------------------------------------------
\* C17 (as stated): for two callers of one instance with no external lock,
\* the buffer belongs to one call from the moment it loads its frame until
\* it has read its response: under every interleaving the bytes handed to the
\* bridge are the caller's own frame and the bytes returned to it are the
\* answer to its own exchange.
OwnExchange(c) ==
    /\ callers[c].pc \in {"read", "done"} => callers[c].handed = callers[c].cmd_bytes
    /\ callers[c].pc = "done" => callers[c].returned = callers[c].answer

C17_BufferOwned == \A c \in Callers : OwnExchange(c)

\* C17 (amended): the buffer belongs to one call from load to read only when
\* the host serializes its callers (one lock per device): then, in every
\* order of the calls, the bytes handed to the bridge are the caller's own
\* frame and the bytes returned to it are the answer to its own exchange.
\* With no external lock the driver gives no such guarantee.
C17_OwnedWhenSerialized == serialized => \A c \in Callers : OwnExchange(c)

\* both callers done under a lock, each with the answer to its own frame
C17_Witness ==
    /\ serialized
    /\ callers["A"].pc = "done"
    /\ callers["B"].pc = "done"
    /\ callers["A"].cmd_bytes = <<\HC0, 0>>
    /\ callers["B"].cmd_bytes = <<\H83, 0, 0, 0>>
    /\ callers["A"].returned = <<\HC0, \HC1>>
    /\ callers["B"].returned = <<\H83, \H84, \H85, \H86>>

----------------------------------------------------------------------------
\* C18: opening and closing the device are balanced: a call opens it once
\* before its exchange and closes it once after, also when the exchange
\* fails; when the open itself fails the call fails with no exchange and no
\* close; the device is never left open when a call returns or raises, and
\* never opened twice without a close in between.
C18_OpenCloseBalanced ==
    /\ Exchanged => (opens = 1 /\ closes = 1)
    /\ raised = "OpenError" => (opens = 1 /\ closes = 0 /\ sent = <<>>)
    /\ opens \in {0, 1}
    /\ closes = (IF raised = "OpenError" THEN 0 ELSE opens)
    /\ opens = 0 => sent = <<>>

\* the exchange failed and the device was closed all the same
C18_Witness ==
    /\ op = "WriteBuffer"
    /\ raised = "TransferError"
    /\ Exchanged
    /\ opens = 1
    /\ closes = 1

----------------------------------------------------------------------------
\* C19: the scratch buffer holds at most 100 bytes: a call whose frame is
\* longer (WriteBuffer with more than 98 payload bytes, WriteRegister with
\* more than 97, ReadBuffer with read_length above 97, ReadRegister with
\* read_length above 96) fails before any exchange, transmits nothing and
\* leaves the buffer as it was; a frame of 100 bytes or fewer is transmitted
\* in full.
BufferOps == {"WriteBuffer", "WriteRegister", "ReadBuffer", "ReadRegister"}

\* the length of the frame the arguments of a buffer operation ask for
FrameLength ==
    CASE op = "WriteBuffer"   -> 2 + Len(data)
      [] op = "WriteRegister" -> 3 + Len(data)
      [] op = "ReadBuffer"    -> 3 + args[2]
      [] op = "ReadRegister"  -> 4 + args[2]

\* a buffer operation whose fields can be encoded
Framed ==
    /\ op \in BufferOps
    /\ op \in {"WriteRegister", "ReadRegister"} => Fits(args[1], 16)
    /\ op \in {"ReadBuffer", "ReadRegister"} => args[2] >= -1

C19_BufferLimit ==
    [][/\ Framed' =>
            IF FrameLength' > BufferSize
            THEN /\ raised' = "ValueError"
                 /\ sent' = <<>>
                 /\ opens' = 0
                 /\ buffer' = buffer
            ELSE /\ raised' \in TransportOutcomes \cup {"IndexError"}
                 /\ raised' # "OpenError" =>
                        /\ Len(sent') = 1
                        /\ Len(sent'[1]) = FrameLength'
                        /\ SubSeq(sent'[1], FrameLength' - Len(data') + 1, FrameLength') = data'
       /\ Len(sent') = 1 => Len(sent'[1]) <= BufferSize]_vars

\* WriteBuffer with 99 payload bytes, refused with the buffer still holding
\* the response of an earlier exchange
C19_Witness ==
    /\ op = "WriteBuffer"
    /\ Len(data) = 99
    /\ raised = "ValueError"
    /\ sent = <<>>
    /\ buffer[1] = 35

----------------------------------------------------------------------------
\* C20: the bus mode is configured before every exchange: constructing an
\* Sx126x opens the device, sets the stream mode exactly once and closes the
\* device; if the open or set_stream fails, construction fails, the device
\* is not left open, and no SPI exchange is ever made through that instance.
C20_StreamModeFirst ==
    /\ constructed = "ok" => streams = 1
    /\ (constructed = "ok" /\ op = "__init__") =>
            (raised = "none" /\ opens = 1 /\ closes = 1 /\ sent = <<>>)
    /\ constructed = "failed" =>
        /\ op = "__init__"
        /\ raised \in {"OpenError", "StreamError"}
        /\ opens = 1
        /\ closes = (IF raised = "OpenError" THEN 0 ELSE 1)
        /\ streams = (IF raised = "OpenError" THEN 0 ELSE 1)
        /\ calls = 0
        /\ sent = <<>>
    /\ Exchanged => (constructed = "ok" /\ streams = 1)
    /\ constructed = "no" => (sent = <<>> /\ opens = 0 /\ streams = 0)

\* set_stream failed: construction failed and the device was closed
C20_Witness ==
    /\ constructed = "failed"
    /\ raised = "StreamError"
    /\ streams = 1
    /\ opens = 1
    /\ closes = 1
    /\ sent = <<>>

====
